---- MODULE Spec2Model ----
(***************************************************************************)
(* Client-side session store and 401 refresh coordinator of the MixModel   *)
(* frontend: frontend/src/services/api.ts (axios interceptors, the         *)
(* isRefreshing flag and the pendingRequests queue) and the zustand auth   *)
(* store useAuthStore (setAuth, logout, checkTokenExpiry).                 *)
(*                                                                         *)
(* Execution model: one JavaScript event loop.  A macrotask is the arrival *)
(* of an HTTP response, a user action or a timer; the promise              *)
(* continuations it schedules (microtasks) all run, in order, before the   *)
(* next macrotask.  The variable micro is the microtask queue.             *)
(***************************************************************************)
EXTENDS Integers, Sequences, FiniteSets, TLC

\* ---- bounds ----
MaxReq == 2
MaxGen == 2

Req == 1..MaxReq

\* ---- values ----
NoExp == -1
AccessExp == 900
RefreshExp == 604800
\* instants at which Date.now() is read: around the buffered expiry of a token with
\* exp = 31 and of a refresh token
NowChoices == {0, 999, 1000, (RefreshExp - 30) * 1000 - 1, (RefreshExp - 30) * 1000}

\* A token is the string header.payload.signature.  seg tells what the payload segment
\* (parts[1]) is: "object" is the base64 of a JSON object, whose exp claim is the field
\* exp (NoExp when the object has no exp).
NullTok == [kind |-> "null", id |-> 0, exp |-> NoExp, seg |-> "none"]
AccessTok(g) == [kind |-> "access", id |-> g, exp |-> AccessExp, seg |-> "object"]
RefreshTok(g) == [kind |-> "refresh", id |-> g, exp |-> RefreshExp, seg |-> "object"]

\* payload segments that are not the base64 of a JSON object:
\*   "missing"    the token has no "." (parts[1] is undefined)
\*   "empty"      parts[1] is the empty string
\*   "notBase64"  atob rejects the segment
\*   "truncated"  the base64 of a JSON text cut short
\*   "notJson"    the base64 of a text that is not JSON
\*   "null", "number", "array"  the base64 of the JSON texts null, 5, []
MalformedSegs == {"missing", "empty", "notBase64", "truncated", "notJson", "null", "number",
                  "array"}
ExpChoices == {NoExp, 0, 31, AccessExp, RefreshExp}
Tok(seg, exp) == [kind |-> "string", id |-> 0, exp |-> exp, seg |-> seg]
TokenStrings == {Tok(seg, NoExp) : seg \in MalformedSegs} \cup
                {Tok("object", exp) : exp \in ExpChoices}

NoUser == "null"
UndefinedUser == "undefined"
PlaceholderUser == "placeholder"
RealUser == "user"

DatasetsUrl == <<"datasets">>
LoginUrl == <<"auth", "login">>
RegisterUrl == <<"auth", "register">>
MeUrl == <<"auth", "me">>
RefreshUrl == <<"auth", "refresh">>
SendUrls == {DatasetsUrl, LoginUrl, RegisterUrl}

NoResponse == 0
ErrStatuses == {401, 500, NoResponse}

NoData == [access_token |-> NullTok, refresh_token |-> NullTok, user |-> UndefinedUser]

VARIABLES
    session,          \* useAuthStore state: user, accessToken, refreshToken, isAuthenticated
    isRefreshing,     \* api.ts module flag
    pendingRequests,  \* api.ts module queue: the requests whose {resolve, reject} pair is queued
    req,              \* per caller: its request config, where its handler stands, its outcome
    micro,            \* microtask queue: continuations to run before the next macrotask
    issued,           \* number of token pairs the auth server has issued
    burstCalls,       \* POST /auth/refresh calls made in the current burst (0 when Idle)
    localStorage,     \* window.localStorage: the items stored, as {key, value} pairs
    last,             \* the store call made directly on a store (as the unit tests
                      \* do) and what it was given and returned
    model             \* useModelStore state: config, activeRunId

vars == <<session, isRefreshing, pendingRequests, req, micro, issued, burstCalls,
          localStorage, last, model>>

\* ---- Session store ----
EmptySession == [user |-> NoUser, accessToken |-> NullTok, refreshToken |-> NullTok,
                 isAuthenticated |-> FALSE]

\* setAuth that stores the user and the access token and forgets the refresh token
setAuthAccessOnly(user, accessToken, refreshToken) ==
    [session EXCEPT !.user = user, !.accessToken = accessToken, !.isAuthenticated = TRUE]

\* setAuth that stores the user and the tokens and leaves isAuthenticated as it was
setAuthKeepsFlag(user, accessToken, refreshToken) ==
    [user |-> user, accessToken |-> accessToken, refreshToken |-> refreshToken,
     isAuthenticated |-> session.isAuthenticated]

setAuth(user, accessToken, refreshToken) ==
    [user |-> user, accessToken |-> accessToken, refreshToken |-> refreshToken,
     isAuthenticated |-> TRUE]

\* logout that nulls the tokens and keeps the user and the flag
logoutTokensOnly == [session EXCEPT !.accessToken = NullTok, !.refreshToken = NullTok]

\* logout that forgets to null the access token
logoutKeepsAccess == [EmptySession EXCEPT !.accessToken = session.accessToken]

logout == EmptySession

\* ---- persistence: persist(..., { name: "mixmodel-auth" }) ----
StorageKey == "mixmodel-auth"

\* JSON.stringify of the partialized state: a property whose value is undefined is left out
toJSON(s) ==
    IF s.user = UndefinedUser
    THEN [accessToken |-> s.accessToken, refreshToken |-> s.refreshToken,
          isAuthenticated |-> s.isAuthenticated]
    ELSE [user |-> s.user, accessToken |-> s.accessToken, refreshToken |-> s.refreshToken,
          isAuthenticated |-> s.isAuthenticated]

\* the write that follows every set(): localStorage.setItem(name, {state, version})
setItem(s) == {[key |-> StorageKey, value |-> [state |-> toJSON(s), version |-> 0]]}

\* JSON.parse of the stored state read back: a property left out reads as undefined
FieldOf(state, f) == IF f \in DOMAIN state THEN state[f] ELSE UndefinedUser

\* a store whose set() does not reach the storage
PersistedSkipped(s, called) == localStorage

\* the storage after a store method has run: written when the method called set()
Persisted(s, called) == IF called THEN setItem(s) ELSE localStorage

NoCall == [op |-> "none"]

Throw == "throw"

\* atob(parts[1]): the decoded text, or an exception
atob(seg) == IF seg = "notBase64" THEN Throw ELSE seg

\* JSON.parse(text): the value, or a SyntaxError
JSONparse(text) == IF text \in {"truncated", "notJson"} THEN Throw ELSE text

\* payload.exp is a TypeError when payload is null
ExpThrows(payload) == payload = "null"

\* payload.exp: undefined (NoExp) on a value that has no such property
expOf(payload, exp) == IF payload = "object" THEN exp ELSE NoExp

\* line 206: !exp, true of undefined and of 0
FalsyExp(exp) == exp = NoExp \/ exp = 0

\* line 210: catch { return true }
CatchResult == TRUE

isTokenExpired(token, nowMs) ==
    IF token.seg \in {"missing", "empty"} THEN TRUE
    ELSE IF atob(token.seg) = Throw THEN CatchResult
    ELSE IF JSONparse(atob(token.seg)) = Throw THEN CatchResult
    ELSE LET payload == JSONparse(atob(token.seg))
         IN IF ExpThrows(payload) THEN CatchResult
            ELSE IF FalsyExp(expOf(payload, token.exp)) THEN FALSE
            ELSE nowMs >= (expOf(payload, token.exp) - 30) * 1000

checkTokenExpiry(s, nowMs) ==
    IF s.accessToken = NullTok \/ s.refreshToken = NullTok THEN s
    ELSE IF isTokenExpired(s.refreshToken, nowMs) THEN logout
    ELSE s

\* whether checkTokenExpiry, taking the Session from s to t, has called logout(): it does
\* so only with both tokens present, which logout() then nulls
CallsLogout(s, t) == t # s

\* ---- Request dispatcher ----
\* request interceptor: overwrite the Authorization header when the Session has a token
\* a client without the request interceptor
AttachTokenNone(s, hdr) == hdr

AttachToken(s, hdr) == IF s.accessToken # NullTok THEN s.accessToken ELSE hdr

\* String.prototype.includes on a URL, a URL being its sequence of path segments
Includes(url, frag) ==
    \E i \in 1..Len(url) : i + Len(frag) - 1 <= Len(url) /\ SubSeq(url, i, i + Len(frag) - 1) = frag

\* ---- Refresh coordinator ----
\* the interceptor without its test of the status
InterceptsAnyStatus(status, url, retry) ==
    /\ ~retry
    /\ ~Includes(url, RefreshUrl)
    /\ ~Includes(url, LoginUrl)

\* the interceptor without its exemption of the authentication endpoints
InterceptsAnyUrl(status, url, retry) ==
    /\ status = 401
    /\ ~retry

\* the interceptor without its test of the _retry mark
InterceptsRetried(status, url, retry) ==
    /\ status = 401
    /\ ~Includes(url, RefreshUrl)
    /\ ~Includes(url, LoginUrl)

Intercepts(status, url, retry) ==
    /\ status = 401
    /\ ~retry
    /\ ~Includes(url, RefreshUrl)
    /\ ~Includes(url, LoginUrl)

\* a handler that never queues behind a renewal in progress
ShouldEnqueueNever(refreshing) == FALSE

\* line 43: the test of isRefreshing
ShouldEnqueue(refreshing) == refreshing

\* the flag not yet set when the handler suspends on the refresh call
RefreshingAfterTriggerLate == FALSE

\* line 53: isRefreshing = true, before the await
RefreshingAfterTrigger == TRUE

\* line 52: originalRequest._retry = true
RetryAfterTrigger == TRUE

\* a handler without its finally block
RefreshingAfterFinallyKept == isRefreshing

\* line 72: finally { isRefreshing = false }
RefreshingAfterFinally == FALSE

\* a drain that leaves the waiters in the queue
ClearedQueueKept == pendingRequests

\* line 30: pendingRequests = []
ClearedQueue == <<>>

NewSlot == [url |-> <<>>, st |-> "new", retry |-> FALSE, hdr |-> NullTok, sends |-> 0,
            err |-> "none", login |-> NoData, data |-> NoData, rerr |-> "none"]

\* a settled call: the caller holds the outcome, the config object and the handler's
\* locals are gone
Settled(slot, st, err) == [NewSlot EXCEPT !.url = slot.url, !.st = st, !.err = err]

InQueue(r) == \E i \in 1..Len(pendingRequests) : pendingRequests[i] = r

\* a drain put off to a later turn: nothing is settled in the handler step
processQueueReqDeferred(rq, error, token) == rq

\* a processQueue that rejects on failure and resolves nobody on success
processQueueReqNoResolve(rq, error, token) ==
    [r \in Req |->
        IF InQueue(r) /\ token = NullTok THEN Settled(rq[r], "failed", error) ELSE rq[r]]

\* a processQueue that resolves on success and rejects nobody on failure
processQueueReqNoReject(rq, error, token) ==
    [r \in Req |->
        IF InQueue(r) /\ token # NullTok THEN [rq[r] EXCEPT !.st = "released"] ELSE rq[r]]

\* processQueue: what becomes of the requests, and the continuations it schedules
processQueueReq(rq, error, token) ==
    [r \in Req |->
        IF InQueue(r)
        THEN IF token # NullTok
             THEN [rq[r] EXCEPT !.st = "released"]
             ELSE Settled(rq[r], "failed", error)
        ELSE rq[r]]

\* a drain whose loop starts one waiter too late
processQueueMicroSkipsFirst(token) ==
    IF token # NullTok
    THEN [i \in 1..(Len(pendingRequests) - 1) |->
             [type |-> "replay", r |-> pendingRequests[i + 1], token |-> token]]
    ELSE <<>>

\* waiters that are resolved but whose continuation replays nothing
processQueueMicroNone(token) == <<>>

processQueueMicro(token) ==
    IF token # NullTok
    THEN [i \in 1..Len(pendingRequests) |->
             [type |-> "replay", r |-> pendingRequests[i], token |-> token]]
    ELSE <<>>

DestructuringError == "TypeError"
ErrName(status) == IF status = 401 THEN "401" ELSE "other"
RefreshErrName(status) == IF status = 401 THEN "refresh401" ELSE "refreshOther"

Macrotask == micro = <<>>

\* ---- model store (useModelStore) ----
defaultConfig == [adstock_type |-> "geometric", saturation_type |-> "logistic",
                  mode |-> "quick", yearly_seasonality |-> 2]
NoRun == "null"
InitialModel == [config |-> defaultConfig, activeRunId |-> NoRun]

\* { ...state.config, ...partial }
setConfig(m, partial) ==
    [m EXCEPT !.config = [f \in DOMAIN m.config |->
                             IF f \in DOMAIN partial THEN partial[f] ELSE m.config[f]]]

setActiveRun(m, id) == [m EXCEPT !.activeRunId = id]

\* a reset that restores the config and keeps the active run
resetConfigOnly(m) == [m EXCEPT !.config = defaultConfig]

reset(m) == [m EXCEPT !.config = defaultConfig, !.activeRunId = NoRun]

Init ==
    /\ \E rehydrated \in BOOLEAN :
          /\ session = IF rehydrated
                       THEN [user |-> RealUser, accessToken |-> AccessTok(1),
                             refreshToken |-> RefreshTok(1), isAuthenticated |-> TRUE]
                       ELSE EmptySession
          /\ issued = IF rehydrated THEN 1 ELSE 0
          /\ localStorage = IF rehydrated THEN setItem(session) ELSE {}
    /\ isRefreshing = FALSE
    /\ pendingRequests = <<>>
    /\ req = [r \in Req |-> NewSlot]
    /\ micro = <<>>
    /\ burstCalls = 0
    /\ last = NoCall
    /\ model = InitialModel

\* a login or registration form is being submitted (its button is disabled meanwhile)
Submitting ==
    \E q \in Req : req[q].url \in {LoginUrl, RegisterUrl, MeUrl} /\ req[q].st \notin {"ok", "failed"}

\* a caller invokes api.get / api.post: the request interceptor attaches the token
Send(r, u) ==
    /\ Macrotask
    /\ req[r].st = "new"
    /\ \A q \in Req : q < r => req[q].st # "new"
    /\ u \in {LoginUrl, RegisterUrl} => ~session.isAuthenticated /\ ~Submitting
    /\ req' = [req EXCEPT ![r] = [@ EXCEPT !.url = u, !.st = "inflight",
                                           !.hdr = AttachToken(session, NullTok),
                                           !.sends = 1]]
    /\ UNCHANGED <<session, isRefreshing, pendingRequests, micro, issued, burstCalls,
                   localStorage, last, model>>

\* 2xx on an ordinary request: the response interceptor returns it to the caller
Response200(r) ==
    /\ Macrotask
    /\ req[r].st = "inflight"
    /\ req[r].url \notin {LoginUrl, RegisterUrl}
    /\ req[r].login = NoData
    /\ req' = [req EXCEPT ![r] = Settled(@, "ok", "none")]
    /\ UNCHANGED <<session, isRefreshing, pendingRequests, micro, issued, burstCalls,
                   localStorage, last, model>>

\* 2xx on /auth/login or /auth/register: the page handler stores the tokens with a
\* placeholder user and calls getMe()
LoginResponse200(r) ==
    /\ Macrotask
    /\ req[r].st = "inflight"
    /\ req[r].url \in {LoginUrl, RegisterUrl}
    /\ issued < MaxGen
    /\ LET a == AccessTok(issued + 1)
           rt == RefreshTok(issued + 1)
           s1 == setAuth(PlaceholderUser, a, rt)
       IN /\ session' = s1
          /\ req' = [req EXCEPT ![r] =
                       [NewSlot EXCEPT !.url = MeUrl, !.st = "inflight",
                                       !.hdr = AttachToken(s1, NullTok), !.sends = 1,
                                       !.login = [access_token |-> a, refresh_token |-> rt,
                                                  user |-> RealUser]]]
    /\ localStorage' = Persisted(session', TRUE)
    /\ issued' = issued + 1
    /\ UNCHANGED <<isRefreshing, pendingRequests, micro, burstCalls, last, model>>

\* 2xx on the getMe() of a login or registration: the page handler stores the real user
\* with the tokens of the login response
MeResponse200(r) ==
    /\ Macrotask
    /\ req[r].st = "inflight"
    /\ req[r].login # NoData
    /\ session' = setAuth(req[r].login.user, req[r].login.access_token,
                          req[r].login.refresh_token)
    /\ localStorage' = Persisted(session', TRUE)
    /\ req' = [req EXCEPT ![r] = Settled(@, "ok", "none")]
    /\ UNCHANGED <<isRefreshing, pendingRequests, micro, issued, burstCalls, last, model>>

\* the error branch of the response interceptor, on the response of request r
ResponseError(r, status) ==
    /\ Macrotask
    /\ req[r].st = "inflight"
    /\ IF Intercepts(status, req[r].url, req[r].retry)
       THEN IF ShouldEnqueue(isRefreshing)
            THEN /\ pendingRequests' = Append(pendingRequests, r)
                 /\ req' = [req EXCEPT ![r] = [@ EXCEPT !.st = "queued"]]
                 /\ UNCHANGED <<session, isRefreshing, burstCalls, localStorage>>
            ELSE IF session.refreshToken = NullTok
                 THEN /\ req' = [processQueueReq(req, "NoRefreshToken", NullTok) EXCEPT ![r] =
                                   Settled(@, "failed", "NoRefreshToken")]
                      /\ pendingRequests' = ClearedQueue
                      /\ session' = logout
                      /\ localStorage' = Persisted(session', TRUE)
                      /\ isRefreshing' = RefreshingAfterFinally
                      /\ burstCalls' = 0
                 ELSE /\ req' = [req EXCEPT ![r] = [@ EXCEPT !.retry = RetryAfterTrigger,
                                                             !.st = "awaitRefresh"]]
                      /\ isRefreshing' = RefreshingAfterTrigger
                      /\ burstCalls' = (IF isRefreshing THEN burstCalls ELSE 0) + 1
                      /\ UNCHANGED <<session, pendingRequests, localStorage>>
       ELSE /\ req' = [req EXCEPT ![r] = Settled(@, "failed", ErrName(status))]
            /\ UNCHANGED <<session, isRefreshing, pendingRequests, burstCalls, localStorage>>
    /\ UNCHANGED <<micro, issued, last, model>>

\* 2xx on the POST /auth/refresh that the handler of r awaits
RefreshResponse200(r) ==
    /\ Macrotask
    /\ req[r].st = "awaitRefresh"
    /\ issued < MaxGen
    /\ \/ /\ \E u \in {RealUser, UndefinedUser} :
                req' = [req EXCEPT ![r] =
                          [@ EXCEPT !.st = "refreshSettled",
                                    !.data = [access_token |-> AccessTok(issued + 1),
                                              refresh_token |-> RefreshTok(issued + 1),
                                              user |-> u]]]
          /\ issued' = issued + 1
       \* a 2xx whose body is null: the destructuring of line 62 will throw a TypeError
       \/ /\ req' = [req EXCEPT ![r] = [@ EXCEPT !.st = "refreshSettled",
                                                 !.rerr = DestructuringError]]
          /\ UNCHANGED issued
    /\ micro' = <<[type |-> "continue", r |-> r, token |-> NullTok]>>
    /\ UNCHANGED <<session, isRefreshing, pendingRequests, burstCalls, localStorage, last, model>>

\* an error on the POST /auth/refresh that the handler of r awaits: it passes through
\* the error branch of the response interceptor like any other response
RefreshResponseError(r, status) ==
    /\ Macrotask
    /\ req[r].st = "awaitRefresh"
    /\ IF Intercepts(status, RefreshUrl, FALSE)
       THEN IF ShouldEnqueue(isRefreshing)
            THEN /\ pendingRequests' = Append(pendingRequests, r)
                 /\ req' = [req EXCEPT ![r] = [@ EXCEPT !.st = "refreshQueued"]]
                 /\ UNCHANGED <<isRefreshing, micro, burstCalls>>
            ELSE /\ isRefreshing' = RefreshingAfterTrigger
                 /\ burstCalls' = (IF isRefreshing THEN burstCalls ELSE 0) + 1
                 /\ UNCHANGED <<pendingRequests, req, micro>>
       ELSE /\ req' = [req EXCEPT ![r] = [@ EXCEPT !.st = "refreshSettled",
                                                  !.rerr = RefreshErrName(status)]]
            /\ micro' = <<[type |-> "continue", r |-> r, token |-> NullTok]>>
            /\ UNCHANGED <<isRefreshing, pendingRequests, burstCalls>>
    /\ UNCHANGED <<session, issued, localStorage, last, model>>

\* the handler of r resumes after its await of the refresh call: try body, catch, finally
Continue(r) ==
    /\ micro # <<>>
    /\ Head(micro).type = "continue"
    /\ Head(micro).r = r
    /\ IF req[r].rerr = "none"
       THEN LET d == req[r].data
                s1 == setAuth(d.user, d.access_token, d.refresh_token)
            IN /\ session' = s1
               /\ req' = [processQueueReq(req, "null", d.access_token) EXCEPT ![r] =
                            [@ EXCEPT !.hdr = AttachToken(s1, d.access_token),
                                      !.st = "inflight", !.sends = @ + 1, !.data = NoData]]
               /\ micro' = Tail(micro) \o processQueueMicro(d.access_token)
       ELSE /\ session' = logout
            /\ req' = [processQueueReq(req, req[r].rerr, NullTok) EXCEPT ![r] =
                         Settled(@, "failed", req[r].rerr)]
            /\ micro' = Tail(micro)
    /\ pendingRequests' = ClearedQueue
    /\ isRefreshing' = RefreshingAfterFinally
    /\ burstCalls' = 0
    /\ localStorage' = Persisted(session', TRUE)
    /\ UNCHANGED <<issued, last, model>>

\* the .then of a queued request runs with the token its waiter was resolved with
Replay(r) ==
    /\ micro # <<>>
    /\ Head(micro).type = "replay"
    /\ Head(micro).r = r
    /\ req' = [req EXCEPT ![r] = [@ EXCEPT !.hdr = AttachToken(session, Head(micro).token),
                                           !.st = "inflight", !.sends = @ + 1]]
    /\ micro' = Tail(micro)
    /\ UNCHANGED <<session, isRefreshing, pendingRequests, issued, burstCalls,
                   localStorage, last, model>>

\* the user clicks "log out" (TopBar, Sidebar)
UserLogout ==
    /\ Macrotask
    /\ session' = logout
    /\ localStorage' = Persisted(session', TRUE)
    /\ UNCHANGED <<isRefreshing, pendingRequests, req, micro, issued, burstCalls, last, model>>

CheckTokenExpiry ==
    /\ Macrotask
    /\ \E nowMs \in NowChoices : session' = checkTokenExpiry(session, nowMs)
    /\ localStorage' = Persisted(session', CallsLogout(session, session'))
    /\ UNCHANGED <<isRefreshing, pendingRequests, req, micro, issued, burstCalls, last, model>>

Next ==
    \/ \E r \in Req, u \in SendUrls : Send(r, u)
    \/ \E r \in Req : Response200(r)
    \/ \E r \in Req : LoginResponse200(r)
    \/ \E r \in Req : MeResponse200(r)
    \/ \E r \in Req, status \in ErrStatuses : ResponseError(r, status)
    \/ \E r \in Req : RefreshResponse200(r)
    \/ \E r \in Req, status \in ErrStatuses : RefreshResponseError(r, status)
    \/ \E r \in Req : Continue(r)
    \/ \E r \in Req : Replay(r)
    \/ UserLogout
    \/ CheckTokenExpiry

Spec == Init /\ [][Next]_vars

\* the event loop runs every scheduled promise continuation: the microtask queue is
\* drained before the next macrotask
FairSpec ==
    /\ Spec
    /\ WF_vars(\E r \in Req : Continue(r))
    /\ WF_vars(\E r \in Req : Replay(r))

TypeOK ==
    /\ isRefreshing \in BOOLEAN
    /\ \A r \in Req : req[r].st \in {"new", "inflight", "queued", "awaitRefresh",
                                     "refreshSettled", "refreshQueued", "released", "ok", "failed"}

\* ---- start of the application on a stored Session that may be stale ----
\* a refresh token whose exp lies in the past at every instant Date.now() can return
StaleRefreshTok == [RefreshTok(1) EXCEPT !.exp = 30]

\* the store is rehydrated from localStorage when the module loads: nothing stored, a
\* Session with a valid pair, a Session whose refresh token has expired meanwhile, or a
\* Session stored without a refresh token (setAuth stores whatever refresh_token the last
\* response carried, and JSON.stringify drops the property when it was undefined)
BootInit ==
    /\ \E stored \in {"nothing", "valid", "stale", "noRefresh"} :
          /\ session = IF stored = "nothing" THEN EmptySession
                       ELSE [user |-> RealUser, accessToken |-> AccessTok(1),
                             refreshToken |-> CASE stored = "valid" -> RefreshTok(1)
                                                [] stored = "stale" -> StaleRefreshTok
                                                [] OTHER -> NullTok,
                             isAuthenticated |-> TRUE]
          /\ issued = IF stored = "nothing" THEN 0 ELSE 1
          /\ localStorage = IF stored = "nothing" THEN {} ELSE setItem(session)
    /\ isRefreshing = FALSE
    /\ pendingRequests = <<>>
    /\ req = [r \in Req |-> NewSlot]
    /\ micro = <<>>
    /\ burstCalls = 0
    /\ last = NoCall
    /\ model = InitialModel

\* App.tsx mounts the routes and the pages send their requests; nothing in it calls
\* checkTokenExpiry first
BootSpec == BootInit /\ [][Next]_vars

\* ---- the store on its own: any Session, any call ----
\* The Session may be any value of the AuthState type: the state is rehydrated from
\* whatever localStorage holds under the key, and the tests set it with setState.
Users == {NoUser, RealUser}
AccessChoices == {NullTok, AccessTok(1), Tok("truncated", NoExp), Tok("object", 31)}
RefreshChoices == {NullTok} \cup TokenStrings
Sessions == [user : Users, accessToken : AccessChoices, refreshToken : RefreshChoices,
             isAuthenticated : BOOLEAN]

\* the arguments of the setAuth calls
AccessArgs == {AccessTok(1), Tok("object", 31)}
RefreshArgs == {RefreshTok(1), Tok("object", 31)}

StoreInit ==
    /\ session \in Sessions
    /\ localStorage = setItem(session)
    /\ isRefreshing = FALSE
    /\ pendingRequests = <<>>
    /\ req = [r \in Req |-> NewSlot]
    /\ micro = <<>>
    /\ issued = 0
    /\ burstCalls = 0
    /\ last = NoCall
    /\ model = InitialModel

StoreSetAuth(user, accessToken, refreshToken) ==
    /\ session' = setAuth(user, accessToken, refreshToken)
    /\ localStorage' = Persisted(session', TRUE)
    /\ last' = [op |-> "setAuth", before |-> session, user |-> user,
                accessToken |-> accessToken, refreshToken |-> refreshToken]
    /\ UNCHANGED <<isRefreshing, pendingRequests, req, micro, issued, burstCalls, model>>

\* n counts the logout() calls made in a row
StoreLogout ==
    /\ session' = logout
    /\ localStorage' = Persisted(session', TRUE)
    /\ last' = [op |-> "logout", before |-> session,
                n |-> IF last.op = "logout" THEN 2 ELSE 1]
    /\ UNCHANGED <<isRefreshing, pendingRequests, req, micro, issued, burstCalls, model>>

StoreCheckTokenExpiry(nowMs) ==
    /\ session' = checkTokenExpiry(session, nowMs)
    /\ localStorage' = Persisted(session', CallsLogout(session, session'))
    /\ last' = [op |-> "checkTokenExpiry", before |-> session, now |-> nowMs]
    /\ UNCHANGED <<isRefreshing, pendingRequests, req, micro, issued, burstCalls, model>>

\* isTokenExpired on the stored refresh token, the call checkTokenExpiry makes
StoreIsTokenExpired(nowMs) ==
    /\ session.refreshToken # NullTok
    /\ last' = [op |-> "isTokenExpired", token |-> session.refreshToken, now |-> nowMs,
                ret |-> isTokenExpired(session.refreshToken, nowMs)]
    /\ UNCHANGED <<session, localStorage, isRefreshing, pendingRequests, req, micro, issued,
                   burstCalls, model>>

StoreNext ==
    \/ \E user \in {RealUser, PlaceholderUser}, accessToken \in AccessArgs,
          refreshToken \in RefreshArgs : StoreSetAuth(user, accessToken, refreshToken)
    \/ StoreLogout
    \/ \E nowMs \in NowChoices : StoreCheckTokenExpiry(nowMs)
    \/ \E nowMs \in NowChoices : StoreIsTokenExpired(nowMs)

StoreSpec == StoreInit /\ [][StoreNext]_vars

\* ---- the model store on its own ----
ConfigFields == {"adstock_type", "saturation_type", "mode", "yearly_seasonality"}
Configs == [adstock_type : {"geometric", "weibull"}, saturation_type : {"logistic", "hill"},
            mode : {"quick", "full"}, yearly_seasonality : {0, 2}]
\* Partial<ModelConfig>: any of the fields, each with a value of its type
Partials == {[f \in fields |-> c[f]] : fields \in SUBSET ConfigFields, c \in Configs}
RunIds == {NoRun, "run-123", "run-456"}

ModelInit ==
    /\ model = InitialModel
    /\ last = NoCall
    /\ session = EmptySession
    /\ localStorage = {}
    /\ isRefreshing = FALSE
    /\ pendingRequests = <<>>
    /\ req = [r \in Req |-> NewSlot]
    /\ micro = <<>>
    /\ issued = 0
    /\ burstCalls = 0

ModelSetConfig(partial) ==
    /\ model' = setConfig(model, partial)
    /\ last' = [op |-> "setConfig"]
    /\ UNCHANGED <<session, localStorage, isRefreshing, pendingRequests, req, micro, issued,
                   burstCalls>>

ModelSetActiveRun(id) ==
    /\ model' = setActiveRun(model, id)
    /\ last' = [op |-> "setActiveRun"]
    /\ UNCHANGED <<session, localStorage, isRefreshing, pendingRequests, req, micro, issued,
                   burstCalls>>

ModelReset ==
    /\ model' = reset(model)
    /\ last' = [op |-> "reset", before |-> model]
    /\ UNCHANGED <<session, localStorage, isRefreshing, pendingRequests, req, micro, issued,
                   burstCalls>>

ModelNext ==
    \/ \E partial \in Partials : ModelSetConfig(partial)
    \/ \E id \in RunIds : ModelSetActiveRun(id)
    \/ ModelReset

ModelSpec == ModelInit /\ [][ModelNext]_vars

\* ---- helpers of the properties ----
Outstanding == {r \in Req : req[r].st = "awaitRefresh"}
Recovering == {"queued", "awaitRefresh", "refreshSettled", "refreshQueued", "released"}
IsSet(user) == user # NoUser /\ user # UndefinedUser

\* C1: a failure burst (the coordinator is Refreshing: one request triggered the
\* renewal, the others are queued behind it) has made exactly one POST /auth/refresh,
\* however many requests failed in it.
NoDuplicateRenewal ==
    /\ burstCalls <= 1
    /\ isRefreshing => burstCalls = 1

\* a burst of MaxReq requests: one triggered the renewal, all the others are queued
\* behind it
FullBurst ==
    /\ isRefreshing
    /\ burstCalls = 1
    /\ Len(pendingRequests) = MaxReq - 1
    /\ \E r \in Req : req[r].st = "awaitRefresh"

\* C2: at most one /auth/refresh call is outstanding, and only while the coordinator
\* is Refreshing: a 401 handled meanwhile is queued, it starts no second call.
AtMostOneRefreshOutstanding ==
    /\ Cardinality(Outstanding) <= 1
    /\ Outstanding # {} => isRefreshing

\* a 401 was handled while the refresh call of another request was outstanding
QueuedBehindOutstanding ==
    \E r, q \in Req : req[r].st = "awaitRefresh" /\ req[q].st = "queued" /\ InQueue(q)

\* C3: no request is retried more than once: a request that has been replayed (sent
\* twice) is never queued again nor used to start another refresh, and no request is
\* sent a third time.
AtMostOnceRetry ==
    \A r \in Req : /\ req[r].sends <= 2
                   /\ req[r].sends = 2 => req[r].st \notin Recovering

\* C4: isAuthenticated is true iff both tokens are non-null and a user is set.
AuthenticatedIffComplete ==
    session.isAuthenticated <=>
        (session.accessToken # NullTok /\ session.refreshToken # NullTok /\ IsSet(session.user))

\* C5: the token pair of the Session comes from one setAuth call (one token response)
\* or both tokens are null: never a new access token with a stale refresh token or
\* the reverse.
TokenPairAtomic ==
    /\ session.accessToken.id = session.refreshToken.id
    /\ session.accessToken = NullTok <=> session.refreshToken = NullTok
    /\ session.accessToken # NullTok =>
          session.accessToken.kind = "access" /\ session.refreshToken.kind = "refresh"

\* a renewal has succeeded: the Session holds the pair of the refresh response and the
\* triggering request is being replayed with it
RenewedSession ==
    \E r \in Req : /\ req[r].retry
                   /\ req[r].st = "inflight"
                   /\ req[r].sends = 2
                   /\ session.accessToken = req[r].hdr
                   /\ session.accessToken.id >= 2

\* C6: a 401 from /auth/login or from /auth/refresh is rejected to its caller; the step
\* that handles it starts no refresh call, enqueues nothing and leaves isRefreshing,
\* the queue and the Session as they were.
NoRecursion ==
    [][\A r \in Req :
          /\ (ResponseError(r, 401) /\ Includes(req[r].url, LoginUrl)) =>
                /\ req'[r].st = "failed" /\ req'[r].err = "401"
                /\ UNCHANGED <<isRefreshing, pendingRequests, session, burstCalls>>
          /\ RefreshResponseError(r, 401) =>
                /\ req'[r].st = "refreshSettled" /\ req'[r].rerr = "refresh401"
                /\ UNCHANGED <<isRefreshing, pendingRequests, session, burstCalls>>]_vars

\* a login was rejected with its 401 while a renewal was in progress, and the refresh
\* call itself has come back 401
AuthCallsRejected ==
    /\ \E r \in Req : req[r].url = LoginUrl /\ req[r].st = "failed" /\ req[r].err = "401"
    /\ \E r \in Req : req[r].st = "refreshSettled" /\ req[r].rerr = "refresh401"
    /\ isRefreshing

\* C7: /auth/register is exempt from interception like login and refresh: its 401 is
\* passed to the caller, never queued, never starts a refresh, never causes logout.
RegisterExempt ==
    \A r \in Req : req[r].url = RegisterUrl =>
        /\ req[r].st \notin Recovering
        /\ req[r].st = "failed" => req[r].err \in {"401", "other"}

\* C8: when the refresh call fails, the handler rejects every queued waiter and the
\* triggering caller with that failure, empties the Session, leaves the coordinator Idle
\* with an empty queue, and replays nothing.
RefreshFailureTearsDown ==
    [][\A r \in Req :
          (Continue(r) /\ req[r].rerr # "none") =>
             /\ session' = EmptySession
             /\ ~isRefreshing'
             /\ pendingRequests' = <<>>
             /\ micro' = <<>>
             /\ req'[r].st = "failed" /\ req'[r].err = req[r].rerr
             /\ \A q \in Req : InQueue(q) => req'[q].st = "failed" /\ req'[q].err = req[r].rerr
             /\ \A q \in Req : req'[q].st # "inflight" \/ req'[q] = req[q]]_vars

\* the refresh call failed with 401 behind a full burst: the triggering request and all
\* the waiters were rejected with that failure and the Session is empty
BurstRejected ==
    /\ \A r \in Req : req[r].st = "failed" /\ req[r].err = "refresh401"
    /\ session = EmptySession
    /\ ~isRefreshing
    /\ pendingRequests = <<>>

\* C9: in any coordinator state, a 401 on a request made without credentials, handled
\* while the Session holds no refresh token, is rejected immediately: it is not queued,
\* no refresh call is made, the coordinator state and the queue are unchanged.
NoRefreshTokenRejects ==
    [][\A r \in Req :
          (/\ ResponseError(r, 401)
           /\ req[r].hdr = NullTok
           /\ session.refreshToken = NullTok) =>
             /\ req'[r].st = "failed"
             /\ UNCHANGED <<isRefreshing, pendingRequests, burstCalls>>]_vars

\* C10: the queue is non-empty only while Refreshing, and once the coordinator is back
\* to Idle no waiter is left suspended: every one was resolved or rejected and removed.
QueueOnlyWhileRefreshing ==
    /\ pendingRequests # <<>> => isRefreshing
    /\ \A r \in Req : req[r].st = "queued" => InQueue(r)
    /\ ~isRefreshing => \A r \in Req : req[r].st # "queued"

\* back to Idle after a drain: a waiter was resolved and its request replayed
DrainedToIdle ==
    /\ ~isRefreshing
    /\ pendingRequests = <<>>
    /\ \E r \in Req : ~req[r].retry /\ req[r].sends = 2 /\ req[r].st = "inflight"

\* C11: logout() is idempotent: after logout() the Session is empty (user and both
\* tokens null, isAuthenticated false) whatever it was before; a second logout() in a
\* row leaves the Session as the first one left it, and logout() on an empty Session
\* leaves it unchanged.
LogoutIdempotent ==
    last.op = "logout" =>
        /\ session = [user |-> NoUser, accessToken |-> NullTok, refreshToken |-> NullTok,
                      isAuthenticated |-> FALSE]
        /\ last.n = 2 => session = last.before
        /\ last.before = EmptySession => session = last.before

\* logout() was called twice in a row, the second time on the empty Session
LogoutTwice ==
    /\ last.op = "logout"
    /\ last.n = 2
    /\ last.before = EmptySession
    /\ session = EmptySession

\* C12: after setAuth(user, accessToken, refreshToken) the Session is exactly the user
\* and the two tokens of that call with isAuthenticated true, whatever the Session was
\* before (empty, or set by earlier setAuth calls): nothing of the earlier state is left.
SetAuthReplacesAll ==
    last.op = "setAuth" =>
        session = [user |-> last.user, accessToken |-> last.accessToken,
                   refreshToken |-> last.refreshToken, isAuthenticated |-> TRUE]

\* setAuth has overwritten a Session that an earlier setAuth had filled with another
\* user and other tokens
SetAuthOverwrote ==
    /\ last.op = "setAuth"
    /\ last.before.user = PlaceholderUser
    /\ last.before.isAuthenticated
    /\ session.user = RealUser
    /\ session.accessToken # last.before.accessToken
    /\ session.refreshToken # last.before.refreshToken

\* C13: checkTokenExpiry() logs out whenever the stored refresh token is absent or is
\* expired according to isTokenExpired, whatever the access token is: after the call on
\* such a Session the Session is empty.
CheckExpiryLogsOut ==
    last.op = "checkTokenExpiry" =>
        ((\/ last.before.refreshToken = NullTok
          \/ isTokenExpired(last.before.refreshToken, last.now)) => session = EmptySession)

\* C14: checkTokenExpiry() does not look at the access token: with a refresh token
\* present and not expired the Session is left as it was, and whether logout() is called
\* is the same for every access token the Session could hold beside that refresh token.
CheckExpiryIgnoresAccess ==
    last.op = "checkTokenExpiry" =>
        /\ (/\ last.before.refreshToken # NullTok
            /\ ~isTokenExpired(last.before.refreshToken, last.now)) => session = last.before
        /\ \A a \in AccessChoices :
              LET b == [last.before EXCEPT !.accessToken = a]
              IN CallsLogout(b, checkTokenExpiry(b, last.now)) <=>
                    CallsLogout(last.before, session)

\* C15: isTokenExpired fails closed: it returns true (and does not throw) for every
\* token whose payload segment is missing, empty, truncated, not base64 or not the
\* encoding of a JSON object.
FailsClosed ==
    (last.op = "isTokenExpired" /\ last.token.seg \in MalformedSegs) => last.ret = TRUE

\* C16: for a token whose payload is a JSON object, isTokenExpired returns false when
\* exp is absent and otherwise exactly now_ms >= (exp - 30) * 1000, for every integer
\* exp (0 included) and every now_ms.
ExpiryExact ==
    (last.op = "isTokenExpired" /\ last.token.seg = "object") =>
        last.ret = (IF last.token.exp = NoExp THEN FALSE
                    ELSE last.now >= (last.token.exp - 30) * 1000)

\* C17: after every mutating store call (setAuth, logout, the logout inside
\* checkTokenExpiry or on the refresh-failure path) the item stored under "mixmodel-auth"
\* is the record {state, version} whose state reads back, field by field, as the
\* in-memory Session; as long as nothing is stored the Session is the initial, empty one.
PersistedEqualsSession ==
    /\ Cardinality(localStorage) <= 1
    /\ localStorage = {} => session = EmptySession
    /\ \A item \in localStorage :
          /\ item.key = "mixmodel-auth"
          /\ DOMAIN item.value = {"state", "version"}
          /\ \A f \in {"user", "accessToken", "refreshToken", "isAuthenticated"} :
                FieldOf(item.value.state, f) = session[f]

\* a renewal has stored a new pair and the logout of a later refresh failure has
\* emptied the Session, each time along with the stored item
LoggedOutPersisted ==
    /\ session = EmptySession
    /\ issued = MaxGen
    /\ \E r \in Req : req[r].st = "failed" /\ req[r].err = "refresh401"
    /\ \E item \in localStorage : item.value.state.accessToken = NullTok

\* C18: every request dispatched (a first send, the getMe of a login, the replay of
\* the triggering request, the replay of a queued request) carries the access token the
\* Session holds when it is dispatched, and no Authorization header when the Session
\* holds none.
BearerIsSessionToken ==
    [][\A r \in Req :
          (\/ \E u \in SendUrls : Send(r, u)
           \/ LoginResponse200(r)
           \/ Replay(r)
           \/ Continue(r) /\ req[r].rerr = "none") =>
             /\ req'[r].st = "inflight"
             /\ req'[r].hdr = session'.accessToken]_vars

\* a queued request is being replayed with the renewed token, which is the one the
\* Session holds, after having first been sent with the token of the rehydrated Session
ReplayCarriesSessionToken ==
    \E r \in Req : /\ ~req[r].retry
                   /\ req[r].sends = 2
                   /\ req[r].st = "inflight"
                   /\ req[r].hdr = session.accessToken
                   /\ req[r].hdr.kind = "access"
                   /\ req[r].hdr.id = 2

\* C19: a successful response, an error whose status is not 401 and a transport error
\* with no response are handed to the caller as they are: the step that handles one
\* starts no refresh call, queues nothing and leaves isRefreshing, the queue and the
\* Session unchanged (on a login success the Session is then set by the page, the
\* coordinator is untouched).
PassThrough ==
    [][\A r \in Req :
          /\ Response200(r) =>
                /\ req'[r].st = "ok"
                /\ UNCHANGED <<session, isRefreshing, pendingRequests, burstCalls, micro>>
          /\ (LoginResponse200(r) \/ MeResponse200(r)) =>
                UNCHANGED <<isRefreshing, pendingRequests, burstCalls, micro>>
          /\ \A status \in ErrStatuses \ {401} :
                /\ ResponseError(r, status) =>
                      /\ req'[r].st = "failed" /\ req'[r].err = "other"
                      /\ \A q \in Req : req'[q].st = "awaitRefresh" => req[q].st = "awaitRefresh"
                      /\ UNCHANGED <<session, isRefreshing, pendingRequests, burstCalls, micro>>
                /\ RefreshResponseError(r, status) =>
                      /\ req'[r].st = "refreshSettled" /\ req'[r].rerr = "refreshOther"
                      /\ UNCHANGED <<session, isRefreshing, pendingRequests, burstCalls>>]_vars

\* while a renewal is in progress another request has failed with a status other than
\* 401: it was rejected to its caller and not queued
PassedThroughWhileRefreshing ==
    /\ isRefreshing
    /\ pendingRequests = <<>>
    /\ \E q \in Req : req[q].st = "awaitRefresh"
    /\ \E r \in Req : req[r].st = "failed" /\ req[r].err = "other"

\* C20: when the refresh call succeeds, the handler stores the new token pair,
\* re-dispatches the triggering request with the new access token and resolves every
\* queued waiter with it, rejecting none; each waiter's continuation then re-dispatches
\* its own request with that token, and a replay that returns 200 settles its caller's
\* call as a success.  Every request of the burst is eventually re-dispatched.
RenewalReplaysBurst ==
    /\ [][\A r \in Req :
            /\ (Continue(r) /\ req[r].rerr = "none") =>
                  /\ session'.accessToken = req[r].data.access_token
                  /\ session'.refreshToken = req[r].data.refresh_token
                  /\ req'[r].st = "inflight"
                  /\ req'[r].hdr = req[r].data.access_token
                  /\ req'[r].sends = req[r].sends + 1
                  /\ \A q \in Req : InQueue(q) =>
                        /\ req'[q].st = "released"
                        /\ \E i \in 1..Len(micro') :
                              micro'[i] = [type |-> "replay", r |-> q,
                                           token |-> req[r].data.access_token]
                  /\ \A q \in Req : req'[q].st = "failed" => req[q].st = "failed"
            /\ Replay(r) =>
                  /\ req[r].st = "released"
                  /\ req'[r].st = "inflight"
                  /\ req'[r].hdr = session.accessToken
                  /\ req'[r].sends = req[r].sends + 1
            /\ (Response200(r) /\ req[r].sends = 2) => req'[r].st = "ok"]_vars
    /\ \A r \in Req, q \in Req :
          (req[r].st = "refreshSettled" /\ req[r].rerr = "none" /\ (q = r \/ InQueue(q)))
             ~> (req[q].st = "inflight" /\ req[q].sends >= 2 /\ req[q].hdr = session.accessToken)

\* the whole burst is back in flight after a renewal: the triggering request and a
\* queued one, each sent a second time with the access token of the refresh response
BurstReplayed ==
    \E r \in Req, q \in Req :
        /\ req[r].retry /\ ~req[q].retry
        /\ req[r].st = "inflight" /\ req[q].st = "inflight"
        /\ req[r].sends = 2 /\ req[q].sends = 2
        /\ req[r].hdr = session.accessToken /\ req[q].hdr = session.accessToken
        /\ session.accessToken.id = 2
        /\ ~isRefreshing

\* C21: a queued request cannot be withdrawn and is settled once: it leaves the queue
\* only in the step in which the handler that awaits the refresh call resumes, resolved
\* or rejected there and removed from the queue; as long as the refresh call stays
\* outstanding the waiters stay queued and the coordinator stays Refreshing; and once
\* the refresh call has settled every waiter is eventually resolved or rejected.
WaitersSettleWithRenewal ==
    /\ [][\A q \in Req :
            /\ (req[q].st = "queued" /\ req'[q].st # "queued") =>
                  /\ \E r \in Req : Continue(r) /\ req[r].st = "refreshSettled"
                  /\ req'[q].st \in {"released", "failed"}
                  /\ pendingRequests' = <<>>
            /\ (req[q].st = "awaitRefresh" /\ req'[q].st = "awaitRefresh") =>
                  /\ isRefreshing'
                  /\ \A w \in Req : req[w].st = "queued" =>
                        req'[w].st = "queued" /\ req'[w].url = req[w].url]_vars
    /\ \A r \in Req, q \in Req :
          (req[r].st = "refreshSettled" /\ req[q].st = "queued")
             ~> (req[q].st \in {"released", "inflight", "failed"})

\* a waiter sat in the queue while the refresh call was outstanding and other events
\* were handled, and has been rejected when the refresh call failed
WaiterRejectedAfterWait ==
    \E r \in Req, q \in Req :
        /\ r # q
        /\ req[r].st = "failed" /\ req[r].err = "refreshOther"
        /\ req[q].st = "failed" /\ req[q].err = "refreshOther"
        /\ session = EmptySession
        /\ ~isRefreshing

SuccessAndDrainAtomic ==
    /\ [](\A r \in Req :
              (req[r].st = "refreshSettled" /\ req[r].rerr = "none") =>
                 session.accessToken # req[r].data.access_token)
    /\ [][\A r \in Req :
            (/\ req[r].st = "refreshSettled" /\ req[r].rerr = "none"
             /\ session'.accessToken = req[r].data.access_token) =>
                /\ Continue(r)
                /\ pendingRequests' = <<>>
                /\ \A q \in Req : InQueue(q) => req'[q].st = "released"
                /\ \A q \in Req : req'[q].st # "queued"]_vars

\* right after the step: the Session holds the token of the refresh response, the queue
\* is empty and the waiter that was in it is about to run with that same token
DrainedWithNewToken ==
    /\ micro # <<>>
    /\ Head(micro).type = "replay"
    /\ Head(micro).token = session.accessToken
    /\ session.accessToken.id = 2
    /\ req[Head(micro).r].st = "released"
    /\ req[Head(micro).r].hdr.id = 1
    /\ pendingRequests = <<>>

\* C24: checkTokenExpiry runs at the start of the application, after the rehydration
\* and before any request: the first request is never dispatched with a rehydrated
\* Session whose refresh token has expired, that Session has been logged out before.
PrecheckBeforeFirstRequest ==
    [][\A r \in Req, u \in SendUrls :
          (Send(r, u) /\ \A q \in Req : req[q].st = "new") =>
             ~(/\ session.refreshToken # NullTok
               /\ \A nowMs \in NowChoices : isTokenExpired(session.refreshToken, nowMs))]_vars

LogoutIsFinal ==
    [][/\ (~session.isAuthenticated /\ session'.isAuthenticated) =>
             \E r \in Req : LoginResponse200(r) \/ MeResponse200(r)
       /\ \A r \in Req :
             (Continue(r) /\ session = EmptySession) =>
                /\ session' = EmptySession
                /\ req'[r].st = "inflight" => req'[r].hdr = NullTok]_vars

\* C27: the coordinator is Refreshing only while a refresh call is outstanding (or its
\* response is about to be processed), and every exit of the triggering handler, on
\* refresh success, on refresh failure, on a missing refresh token or on an exception
\* thrown in the try block, leaves isRefreshing false and the queue empty in one step.
RefreshingOnlyWhileOutstanding ==
    /\ [](isRefreshing =>
             \E r \in Req : req[r].st \in {"awaitRefresh", "refreshSettled"})
    /\ [][\A r \in Req :
            /\ Continue(r) => ~isRefreshing' /\ pendingRequests' = <<>>
            /\ (/\ ResponseError(r, 401)
                /\ Intercepts(401, req[r].url, req[r].retry)
                /\ ~isRefreshing
                /\ session.refreshToken = NullTok) =>
                   /\ ~isRefreshing' /\ pendingRequests' = <<>>
                   /\ req'[r].st = "failed"]_vars

\* the try block threw on a 2xx refresh response behind a full queue: the trigger and
\* the waiters were rejected with the exception and the coordinator is Idle
ExitByException ==
    /\ \A r \in Req : req[r].st = "failed" /\ req[r].err = DestructuringError
    /\ ~isRefreshing
    /\ pendingRequests = <<>>
    /\ session = EmptySession

\* C28: when the triggering request, sent again after a successful renewal, fails with
\* any status (a second 401 included), the failure goes to its caller only: the Session
\* keeps the renewed tokens, logout() is not called, the coordinator and its queue are
\* left as they were and no other request is settled.
ReplayFailureIsLocal ==
    [][\A r \in Req : \A status \in ErrStatuses :
          (ResponseError(r, status) /\ req[r].retry) =>
             /\ req'[r].st = "failed" /\ req'[r].err = ErrName(status)
             /\ session' = session
             /\ localStorage' = localStorage
             /\ isRefreshing' = isRefreshing
             /\ pendingRequests' = pendingRequests
             /\ micro' = micro
             /\ \A q \in Req \ {r} : req'[q] = req[q]]_vars

\* a replayed triggering request has failed with a second 401 and the Session still holds
\* the token pair of the renewal
ReplayFailedTokensKept ==
    \E r \in Req :
       /\ req[r].st = "failed" /\ req[r].err = "401"
       /\ ~Includes(req[r].url, RefreshUrl) /\ ~Includes(req[r].url, LoginUrl)
       /\ issued >= 1
       /\ session.isAuthenticated
       /\ session.accessToken = AccessTok(issued)
       /\ session.refreshToken = RefreshTok(issued)

\* C29: a 401 handled while no renewal is in progress and the Session holds no refresh
\* token makes no refresh call: the handler calls logout(), so the Session and its stored
\* record are empty afterwards whatever user and access token they held, and the caller
\* is rejected with the new "No refresh token" error, not with the 401.
NoRefreshTokenLogsOut ==
    [][\A r \in Req :
          (/\ ResponseError(r, 401)
           /\ Intercepts(401, req[r].url, req[r].retry)
           /\ ~isRefreshing
           /\ session.refreshToken = NullTok) =>
             /\ session' = EmptySession
             /\ localStorage' = setItem(EmptySession)
             /\ req'[r].st = "failed"
             /\ req'[r].err = "NoRefreshToken" /\ req'[r].err # ErrName(401)
             /\ ~isRefreshing'
             /\ \A q \in Req : req'[q].st # "awaitRefresh"]_vars

\* a request sent with the access token of a Session that has no refresh token was
\* rejected with "No refresh token" and the Session has been emptied
RejectedWithNoRefreshToken ==
    \E r \in Req :
       /\ req[r].st = "failed" /\ req[r].err = "NoRefreshToken"
       /\ session = EmptySession
       /\ localStorage = setItem(EmptySession)
       /\ issued = 1
       /\ \A q \in Req \ {r} : req[q].st = "new"

\* C30: a login or a registration that fails at any step, the POST itself or the getMe()
\* that follows it, leaves the Session unauthenticated: when the attempt is rejected the
\* Session is not authenticated and does not hold the placeholder user.
FailedLoginLeavesUnauthenticated ==
    [][\A r \in Req : \A status \in ErrStatuses :
          (/\ ResponseError(r, status)
           /\ req[r].url \in {LoginUrl, RegisterUrl} \/ req[r].login # NoData
           /\ req'[r].st = "failed") =>
             /\ ~session'.isAuthenticated
             /\ session'.user # PlaceholderUser]_vars

====
